---- MODULE Spec2Model ----
(***************************************************************************)
(* A model of gblog.py: a command-line program that posts one local       *)
(* text/HTML file to a Blogger blog.                                       *)
(*                                                                         *)
(* Text is modelled as a sequence of lexical tokens (Str): every literal   *)
(* of the two regular expressions of extract_metadata_from_content is one  *)
(* token, whitespace characters and the comma are tokens, and any other    *)
(* text is an opaque token.  None of the literals can straddle a token     *)
(* boundary, so matching on tokens agrees with matching on characters.     *)
(* A Python optional value is None == <<>> or Some(v) == <<v>>.            *)
(***************************************************************************)
EXTENDS Integers, Sequences, FiniteSets, TLC

VARIABLES
    pc,           \* position of the run (see the actions)
    cli,          \* the command line as typed: per flag, None when not given
    args,         \* the argparse namespace (updated by merge_config_with_args)
    cfgKind,      \* what load_config_file found at the config path
    config,       \* [isdict, m]: the value load_config_file returned
    fileState,    \* what the file system answered for the input file
    content,      \* the text read from the input file
    file_title,   \* extract_metadata_from_content(content)[0]
    file_labels,  \* extract_metadata_from_content(content)[1]
    final_title,
    final_labels,
    creds,        \* None or Some([valid, expired, refresh_token, origin])
    credLog,      \* what get_credentials met, in order
    blogs,        \* the items of the listByUser response
    blog_id,      \* None or Some(id): what get_blog_id returned
    calls,        \* the remote API calls made, in order
    listing,      \* how the listByUser call ended, "none" before it
    prompts,      \* the times input() was called by the selection loop
    choice,       \* what the last input() of the selection loop gave
    post_body,    \* None or Some(body and isDraft of the posts.insert call)
    post,         \* None or Some(the post resource posts.insert returned)
    steps,        \* the steps of main entered, in order
    status        \* "running", "exit0", "exit1" (sys.exit(1)), "raised" (uncaught exception)

vars == <<pc, cli, args, cfgKind, config, fileState, content, file_title,
          file_labels, final_title, final_labels, creds, credLog, blogs,
          blog_id, calls, listing, prompts, choice, post_body, post, steps,
          status>>

----------------------------------------------------------------------------
(* Bounds of the model. *)

\* longest text placed between a start and an end marker of the labels
MaxCap == 5
\* longest text placed between a start and an end marker of the title
MaxTitle == 2
\* most blogs a listByUser response carries
MaxBlogs == 3
\* the prompt counter saturates here (the loop itself is not stopped)
MaxPrompts == 2

----------------------------------------------------------------------------
(* Python values. *)

None == <<>>
Some(v) == <<v>>
IsNone(o) == Len(o) = 0
IsSome(o) == Len(o) = 1

\* bool(o) of an optional string or an optional list: not None and not empty
Truthy(o) == IsSome(o) /\ Len(o[1]) > 0

\* str.isspace() of one character; also the class \s of the re module
IsSpace(t) == t \in {" ", "\n", "\t"}

\* re.IGNORECASE: the case folding of a token
Lower(t) ==
    CASE t = "TITLE>" -> "title>"
      [] t = "<TITLE" -> "<title"
      [] t = "Labels>" -> "labels>"
      [] t = "<LABELS" -> "<labels"
      [] OTHER -> t

RECURSIVE lstrip(_)
lstrip(s) == IF Len(s) > 0 /\ IsSpace(s[1]) THEN lstrip(Tail(s)) ELSE s

RECURSIVE rstrip(_)
rstrip(s) ==
    IF Len(s) > 0 /\ IsSpace(s[Len(s)])
    THEN rstrip(SubSeq(s, 1, Len(s) - 1))
    ELSE s

\* str.strip()
strip(s) == rstrip(lstrip(s))

\* str.split(sep): always at least one piece
RECURSIVE split(_, _)
split(s, sep) ==
    IF \E i \in 1..Len(s) : s[i] = sep
    THEN LET i == CHOOSE i \in 1..Len(s) :
                      s[i] = sep /\ \A j \in 1..(i - 1) : s[j] # sep
         IN  <<SubSeq(s, 1, i - 1)>> \o split(SubSeq(s, i + 1, Len(s)), sep)
    ELSE <<s>>

\* sep.join(items)
RECURSIVE join(_, _)
join(items, sep) ==
    IF Len(items) = 0 THEN <<>>
    ELSE IF Len(items) = 1 THEN items[1]
    ELSE items[1] \o <<sep>> \o join(Tail(items), sep)

\* [f(x) for x in items]
RECURSIVE MapStrip(_)
MapStrip(items) ==
    IF Len(items) = 0 THEN <<>>
    ELSE <<strip(items[1])>> \o MapStrip(Tail(items))

\* [x for x in items if x]
RECURSIVE NonEmpty(_)
NonEmpty(items) ==
    IF Len(items) = 0 THEN <<>>
    ELSE IF Len(items[1]) > 0 THEN <<items[1]>> \o NonEmpty(Tail(items))
    ELSE NonEmpty(Tail(items))

----------------------------------------------------------------------------
(* re.search(r'<!--\s*KW>\s*(.+?)\s*<KW\s*-->', content, DOTALL|IGNORECASE) *)

title_pattern == [open |-> "title>", close |-> "<title"]
labels_pattern == [open |-> "labels>", close |-> "<labels"]

\* where a greedy \s* that starts at i stops (no later literal is whitespace,
\* so giving whitespace back never helps these two)
RECURSIVE SkipSpace(_, _)
SkipSpace(s, i) ==
    IF i <= Len(s) /\ IsSpace(s[i]) THEN SkipSpace(s, i + 1) ELSE i

\* \s*<KW\s*--> matches at p
CloseAt(pat, s, p) ==
    LET q == SkipSpace(s, p)
        r == SkipSpace(s, q + 1)
    IN  /\ q <= Len(s)
        /\ Lower(s[q]) = pat.close
        /\ r <= Len(s)
        /\ s[r] = "-->"

\* The match that starts at i, as the backtracking matcher finds it: the
\* \s* before the group is greedy (most whitespace first), the group is
\* lazy (shortest first) and takes any character (DOTALL).
MatchAt(pat, s, i) ==
    IF s[i] # "<!--" THEN None
    ELSE LET j == SkipSpace(s, i + 1) IN
         IF j > Len(s) \/ Lower(s[j]) # pat.open THEN None
         ELSE LET k == j + 1
                  most == SkipSpace(s, k) - k
                  ok == {x \in (0..most) \X (1..Len(s)) :
                            /\ k + x[1] + x[2] <= Len(s)
                            /\ CloseAt(pat, s, k + x[1] + x[2])}
              IN  IF ok = {} THEN None
                  ELSE LET x == CHOOSE x \in ok : \A y \in ok :
                                    \/ x[1] > y[1]
                                    \/ x[1] = y[1] /\ x[2] <= y[2]
                       IN  Some(SubSeq(s, k + x[1], k + x[1] + x[2] - 1))

\* group(1) of the leftmost match, or None
re_search(pat, s) ==
    LET starts == {i \in 1..Len(s) : IsSome(MatchAt(pat, s, i))}
    IN  IF starts = {} THEN None
        ELSE MatchAt(pat, s, CHOOSE i \in starts : \A j \in starts : i <= j)

----------------------------------------------------------------------------
(* extract_metadata_from_content *)

extract_title(text) ==
    LET title_match == re_search(title_pattern, text)
    IN  IF IsSome(title_match) THEN Some(strip(title_match[1])) ELSE None

\* labels_of_text without the strip of each piece
labels_of_text_unstripped(labels_text) ==
    NonEmpty(split(labels_text, ","))

\* labels_text -> labels (the two list comprehensions)
labels_of_text(labels_text) ==
    NonEmpty(MapStrip(split(labels_text, ",")))

extract_labels(text) ==
    LET labels_match == re_search(labels_pattern, text)
    IN  IF IsSome(labels_match)
        THEN LET labels_text == strip(labels_match[1])
             IN  IF Len(labels_text) > 0
                 THEN Some(labels_of_text(labels_text))
                 ELSE None
        ELSE None

extract_metadata_from_content(text) ==
    [title |-> extract_title(text), labels |-> extract_labels(text)]

----------------------------------------------------------------------------
(* The command line and argparse (main, parser.add_argument ... parse_args) *)

DEFAULT_CREDENTIALS_FILE == <<"credentials.json">>
DEFAULT_TOKEN_FILE == <<"token.json">>

\* args = parser.parse_args(): a flag that was not given takes its default
parse_args(c) ==
    [title       |-> c.title,
     blog_url    |-> c.blog_url,
     blog_id     |-> c.blog_id,
     labels      |-> c.labels,
     draft       |-> c.draft,
     credentials |-> IF IsSome(c.credentials) THEN c.credentials[1]
                     ELSE DEFAULT_CREDENTIALS_FILE,
     token       |-> IF IsSome(c.token) THEN c.token[1]
                     ELSE DEFAULT_TOKEN_FILE,
     config      |-> c.config]

----------------------------------------------------------------------------
(* The configuration: load_config_file and merge_config_with_args *)

\* A mapping read from YAML: per recognised key None (no such key) or
\* Some(value).  A labels value is [islist, items]: a YAML list of strings,
\* or one string held as items[1].
EmptyMap ==
    [blog_url |-> None, blog_id |-> None, labels |-> None,
     credentials |-> None, token |-> None, draft |-> None]

\* bool(config.get('labels'))
LabelsTruthy(o) ==
    /\ IsSome(o)
    /\ IF o[1].islist THEN Len(o[1].items) > 0 ELSE Len(o[1].items[1]) > 0

\* bool(config.get('draft'))
DraftTruthy(o) == IsSome(o) /\ o[1]

\* What load_config_file returns for what it finds at config_path:
\*   "missing"    os.path.exists is false             -> {}
\*   "noyaml"     the yaml module is not installed    -> {}
\*   "unreadable" open or read raises                 -> {}
\*   "malformed"  yaml.safe_load raises YAMLError     -> {}
\*   "falsy"      the document is empty, null, {}, [] -> {}   (... or {})
\*   "nondict"    a non-empty list or a scalar        -> that value
\*   "dict"       a non-empty mapping m               -> m
load_config_file(kind, m) ==
    CASE kind = "dict" -> [isdict |-> TRUE, m |-> m]
      [] kind = "nondict" -> [isdict |-> FALSE, m |-> EmptyMap]
      [] OTHER -> [isdict |-> TRUE, m |-> EmptyMap]

\* merge_config_with_args with "if config.get('blog_id')" for the blog id:
\* the config file wins over the command line
merge_config_first(m, a) ==
    [a EXCEPT !.blog_id = IF Truthy(m.blog_id) THEN m.blog_id ELSE @]

merge_config_with_args(m, a) ==
    [title       |-> a.title,
     blog_url    |-> IF ~Truthy(a.blog_url) /\ Truthy(m.blog_url)
                     THEN m.blog_url ELSE a.blog_url,
     blog_id     |-> IF ~Truthy(a.blog_id) /\ Truthy(m.blog_id)
                     THEN m.blog_id ELSE a.blog_id,
     labels      |-> IF ~Truthy(a.labels) /\ LabelsTruthy(m.labels)
                     THEN IF m.labels[1].islist
                          THEN Some(join(m.labels[1].items, ","))
                          ELSE Some(m.labels[1].items[1])
                     ELSE a.labels,
     draft       |-> IF ~a.draft /\ DraftTruthy(m.draft)
                     THEN m.draft[1] ELSE a.draft,
     credentials |-> IF a.credentials = DEFAULT_CREDENTIALS_FILE
                        /\ Truthy(m.credentials)
                     THEN m.credentials[1] ELSE a.credentials,
     token       |-> IF a.token = DEFAULT_TOKEN_FILE /\ Truthy(m.token)
                     THEN m.token[1] ELSE a.token,
     config      |-> a.config]

\* merge_config_with_args evaluates config.get(...) for some field (the left
\* operand of one of its six conditions is true)
MergeReadsConfig(a) ==
    \/ ~Truthy(a.blog_url)
    \/ ~Truthy(a.blog_id)
    \/ ~Truthy(a.labels)
    \/ a.credentials = DEFAULT_CREDENTIALS_FILE
    \/ a.token = DEFAULT_TOKEN_FILE
    \/ ~a.draft

----------------------------------------------------------------------------
(* Inputs *)

SeqsUpTo(S, n) == UNION {[1..k -> S] : k \in 0..n}

\* the text between the markers: whitespace, commas and two words
CapAlphabet == {" ", ",", "a", "b"}
Caps == SeqsUpTo(CapAlphabet, MaxCap)
TitleCaps == SeqsUpTo(CapAlphabet, MaxTitle)

\* what precedes the capture: a start marker (with and without whitespace,
\* in either case), two start markers, none, a broken one
HeadsOf(open, OPEN) ==
    { <<"<!--", open>>,
      <<"x", "<!--", " ", OPEN, "\n">>,
      <<"<!--", open, "<!--", open>>,
      <<>>,
      <<open>> }

\* what follows the capture: an end marker (with and without whitespace, in
\* either case), two end markers, none, a broken one
TailsOf(close, CLOSE) ==
    { <<close, "-->">>,
      <<"\t", CLOSE, " ", "-->", "b">>,
      <<close, "-->", ",", "b", close, "-->">>,
      <<>>,
      <<close, "b", "-->">> }

MarkedContents(open, OPEN, close, CLOSE, caps) ==
    {h \o c \o t : h \in HeadsOf(open, OPEN), c \in caps,
                   t \in TailsOf(close, CLOSE)}

\* the contents extract_metadata_from_content is checked on
Contents ==
    MarkedContents("labels>", "Labels>", "<labels", "<LABELS", Caps)
        \cup MarkedContents("title>", "TITLE>", "<title", "<TITLE", TitleCaps)

\* the files a whole run is checked on
MainContents ==
    { <<"World">>,
      <<"<!--", "title>", "Hello", "<title", "-->", "World">>,
      <<"<!--", "title>", " ", "<title", "-->", "World">>,
      <<"<!--", " ", "TITLE>", " ", "Hello", " ", "<title", "-->", "\n",
        "<!--", "labels>", "a", ",", " ", "b", "<labels", "-->", "World">>,
      <<"<!--", "labels>", ",", "<labels", "-->", "World">> }

\* the command lines a whole run is checked on
CliSet ==
    [title       : {None, Some(<<>>), Some(<<"T">>)},
     blog_url    : {None, Some(<<"U">>)},
     blog_id     : {None, Some(<<>>), Some(<<"Y">>)},
     labels      : {None, Some(<<>>), Some(<<"x", ",", " ", "y">>)},
     draft       : BOOLEAN,
     credentials : {None},
     token       : {None},
     config      : {None, Some(<<"gblog.yaml">>)}]

\* the mappings a config file of a whole run holds
ConfigSamples ==
    { [EmptyMap EXCEPT !.blog_id = Some(<<"X">>)],
      [blog_url |-> Some(<<"V">>), blog_id |-> None,
       labels |-> Some([islist |-> TRUE, items |-> <<<<"p">>, <<"q">>>>]),
       credentials |-> Some(<<"cfg.json">>), token |-> Some(<<"cfg.tok">>),
       draft |-> Some(TRUE)] }

CfgKinds ==
    {"missing", "noyaml", "unreadable", "malformed", "falsy", "nondict", "dict"}

\* the command lines and mappings merge_config_with_args is checked on
CliMergeSet ==
    [title       : {None},
     blog_url    : {None, Some(<<"U">>)},
     blog_id     : {None, Some(<<>>), Some(<<"Y">>)},
     labels      : {None, Some(<<"x">>)},
     draft       : BOOLEAN,
     credentials : {None, Some(DEFAULT_CREDENTIALS_FILE), Some(<<"my.json">>)},
     token       : {None, Some(<<"my.tok">>)},
     config      : {Some(<<"gblog.yaml">>)}]

ConfigMaps ==
    [blog_url    : {None, Some(<<"V">>)},
     blog_id     : {None, Some(<<>>), Some(<<"X">>)},
     labels      : {None,
                    Some([islist |-> FALSE, items |-> <<<<"p", ",", "q">>>>]),
                    Some([islist |-> TRUE, items |-> <<<<"p">>, <<"q">>>>]),
                    Some([islist |-> TRUE, items |-> <<>>])},
     credentials : {None, Some(<<"cfg.json">>)},
     token       : {None, Some(<<"cfg.tok">>)},
     draft       : {None, Some(FALSE), Some(TRUE)}]

\* google.oauth2 Credentials as loaded from a token file: valid means a
\* token that is not expired
LoadedCreds ==
    {c \in [valid : BOOLEAN, expired : BOOLEAN, refresh_token : BOOLEAN,
            origin : {"loaded"}] : c.valid => ~c.expired}

\* what input() gives the selection loop: an integer, other text, Ctrl-C
\* (KeyboardInterrupt) or the end of standard input (EOFError)
Inputs ==
    [kind : {"int"}, n : 0..(MaxBlogs + 1)]
        \cup [kind : {"text", "interrupt", "eof"}, n : {0}]

\* the id of the i-th listed blog
BlogId(i) == <<"blog", ToString(i)>>

----------------------------------------------------------------------------
(* The run: main *)

Has(seq, x) == \E i \in 1..Len(seq) : seq[i] = x
Last(seq) == seq[Len(seq)]

\* the values of the variables a run has not set yet
Unset(vs) ==
    /\ "cfg" \in vs => cfgKind = "unset" /\ config = [isdict |-> TRUE, m |-> EmptyMap]
    /\ "file" \in vs => fileState = "unset" /\ content = <<>> /\ steps = <<>>
    /\ file_title = None
    /\ file_labels = None
    /\ final_title = None
    /\ final_labels = None
    /\ creds = None
    /\ credLog = <<>>
    /\ blogs = <<>>
    /\ blog_id = None
    /\ calls = <<>>
    /\ listing = "none"
    /\ prompts = 0
    /\ choice = [kind |-> "none", n |-> 0]
    /\ post_body = None
    /\ post = None
    /\ status = "running"

\* the state right after args = parser.parse_args()
Init ==
    /\ pc = "load_config"
    /\ cli \in CliSet
    /\ args = parse_args(cli)
    /\ Unset({"cfg", "file"})

cfgVars == <<cfgKind, config>>
fileVars == <<fileState, content>>
metaVars == <<file_title, file_labels, final_title, final_labels>>
credVars == <<creds, credLog>>
blogVars == <<blogs, blog_id, listing, prompts, choice>>
postVars == <<calls, post_body, post>>

\* config = load_config_file(args.config) if ... args.config else {}
LoadConfig ==
    /\ pc = "load_config"
    /\ IF ~Truthy(args.config)
       THEN /\ cfgKind' = "nopath"
            /\ config' = [isdict |-> TRUE, m |-> EmptyMap]
       ELSE \E kind \in CfgKinds, m \in ConfigSamples :
               /\ cfgKind' = kind
               /\ config' = load_config_file(kind, m)
    /\ pc' = "merge"
    /\ UNCHANGED <<cli, args, fileVars, metaVars, credVars, blogVars,
                   postVars, steps, status>>

\* args = merge_config_with_args(config, args); a config that is no mapping
\* has no get: the first config.get(...) evaluated raises AttributeError
MergeConfig ==
    /\ pc = "merge"
    /\ IF ~config.isdict /\ MergeReadsConfig(args)
       THEN /\ pc' = "end"
            /\ status' = "raised"
            /\ args' = args
       ELSE /\ pc' = "file_check"
            /\ status' = status
            /\ args' = merge_config_with_args(config.m, args)
    /\ UNCHANGED <<cli, cfgVars, fileVars, metaVars, credVars, blogVars,
                   postVars, steps>>

\* if not os.path.exists(args.file): ... sys.exit(1)
FileCheck ==
    /\ pc = "file_check"
    /\ steps' = Append(steps, "file_check")
    /\ \E exists \in BOOLEAN :
          IF exists
          THEN /\ fileState' = "exists"
               /\ pc' = "read"
               /\ status' = status
          ELSE /\ fileState' = "missing"
               /\ pc' = "end"
               /\ status' = "exit1"
    /\ UNCHANGED <<cli, args, cfgVars, content, metaVars, credVars, blogVars,
                   postVars>>

ReadOutcomes == {"read", "notfound", "permission", "decode", "oserror"}

\* read_file_content with "except PermissionError: return ''"
ReadFileSwallowsError ==
    /\ pc = "read"
    /\ steps' = Append(steps, "read")
    /\ \E r \in ReadOutcomes, text \in MainContents :
          /\ fileState' = r
          /\ IF r \in {"read", "permission"}
             THEN /\ content' = IF r = "read" THEN text ELSE <<>>
                  /\ pc' = "extract"
                  /\ status' = status
             ELSE /\ content' = content
                  /\ pc' = "end"
                  /\ status' = "exit1"
    /\ UNCHANGED <<cli, args, cfgVars, metaVars, credVars, blogVars,
                   postVars>>

\* content = read_file_content(args.file)
ReadFile ==
    /\ pc = "read"
    /\ steps' = Append(steps, "read")
    /\ \E r \in ReadOutcomes, text \in MainContents :
          /\ fileState' = r
          /\ IF r = "read"
             THEN /\ content' = text
                  /\ pc' = "extract"
                  /\ status' = status
             ELSE /\ content' = content
                  /\ pc' = "end"
                  /\ status' = "exit1"
    /\ UNCHANGED <<cli, args, cfgVars, metaVars, credVars, blogVars,
                   postVars>>

\* file_title, file_labels = extract_metadata_from_content(content)
ExtractMetadata ==
    /\ pc = "extract"
    /\ steps' = Append(steps, "extract")
    /\ LET meta == extract_metadata_from_content(content)
       IN  /\ file_title' = meta.title
           /\ file_labels' = meta.labels
    /\ pc' = "title"
    /\ UNCHANGED <<cli, args, cfgVars, fileVars, final_title, final_labels,
                   credVars, blogVars, postVars, status>>

\* main with "if final_title is None:" for "if not final_title:"
ResolveTitleNoneOnly ==
    /\ pc = "title"
    /\ steps' = Append(steps, "title")
    /\ LET t == IF Truthy(args.title) THEN args.title ELSE file_title
       IN  /\ final_title' = t
           /\ IF IsSome(t)
              THEN pc' = "labels" /\ status' = status
              ELSE pc' = "end" /\ status' = "exit1"
    /\ UNCHANGED <<cli, args, cfgVars, fileVars, file_title, file_labels,
                   final_labels, credVars, blogVars, postVars>>

\* final_title = args.title if args.title else file_title
\* if not final_title: ... sys.exit(1)
ResolveTitle ==
    /\ pc = "title"
    /\ steps' = Append(steps, "title")
    /\ LET t == IF Truthy(args.title) THEN args.title ELSE file_title
       IN  /\ final_title' = t
           /\ IF Truthy(t)
              THEN pc' = "labels" /\ status' = status
              ELSE pc' = "end" /\ status' = "exit1"
    /\ UNCHANGED <<cli, args, cfgVars, fileVars, file_title, file_labels,
                   final_labels, credVars, blogVars, postVars>>

\* main with the labels of the two sources merged: the file's labels are
\* appended to those of the command line
ResolveLabelsMerging ==
    /\ pc = "labels"
    /\ steps' = Append(steps, "labels")
    /\ final_labels' =
          IF Truthy(args.labels)
          THEN Some(MapStrip(split(args.labels[1], ","))
                    \o (IF Truthy(file_labels) THEN file_labels[1] ELSE <<>>))
          ELSE IF Truthy(file_labels) THEN file_labels ELSE None
    /\ pc' = "credentials"
    /\ UNCHANGED <<cli, args, cfgVars, fileVars, file_title, file_labels,
                   final_title, credVars, blogVars, postVars, status>>

\* final_labels: args.labels split and stripped, elif file_labels
ResolveLabels ==
    /\ pc = "labels"
    /\ steps' = Append(steps, "labels")
    /\ final_labels' =
          IF Truthy(args.labels)
          THEN Some(MapStrip(split(args.labels[1], ",")))
          ELSE IF Truthy(file_labels) THEN file_labels ELSE None
    /\ pc' = "credentials"
    /\ UNCHANGED <<cli, args, cfgVars, fileVars, file_title, file_labels,
                   final_title, credVars, blogVars, postVars, status>>

----------------------------------------------------------------------------
(* get_credentials *)

FreshCreds(origin) ==
    Some([valid |-> TRUE, expired |-> FALSE, refresh_token |-> TRUE,
          origin |-> origin])

\* creds.expired and creds.refresh_token
Refreshable(cr) == IsSome(cr) /\ cr[1].expired /\ cr[1].refresh_token

\* if os.path.exists(token_file): try: creds = Credentials.from_... except:
\* creds = None; then the test "if not creds or not creds.valid" and the two
\* tests inside it
LoadToken ==
    /\ pc = "credentials"
    /\ steps' = Append(steps, "credentials")
    /\ \E exists \in BOOLEAN, loads \in BOOLEAN, c \in LoadedCreds :
          LET cr == IF exists /\ loads THEN Some(c) ELSE None
              ev == IF ~exists THEN "token_absent"
                    ELSE IF loads THEN "token_loaded" ELSE "load_failed"
          IN  /\ creds' = cr
              /\ IF IsSome(cr) /\ cr[1].valid
                 THEN pc' = "build" /\ credLog' = credLog \o <<ev, "return">>
                 ELSE /\ credLog' = Append(credLog, ev)
                      /\ pc' = IF Refreshable(cr) THEN "creds_refresh"
                               ELSE IF IsNone(cr) THEN "creds_authorize"
                               ELSE "creds_save"
    /\ UNCHANGED <<cli, args, cfgVars, fileVars, metaVars, blogVars,
                   postVars, status>>

\* try: creds.refresh(Request()) except Exception: creds = None
RefreshToken ==
    /\ pc = "creds_refresh"
    /\ \E refreshed \in BOOLEAN :
          IF refreshed
          THEN /\ creds' = FreshCreds("refreshed")
               /\ credLog' = Append(credLog, "refresh_ok")
               /\ pc' = "creds_save"
          ELSE /\ creds' = None
               /\ credLog' = Append(credLog, "refresh_failed")
               /\ pc' = "creds_authorize"
    /\ UNCHANGED <<cli, args, cfgVars, fileVars, metaVars, blogVars,
                   postVars, steps, status>>

\* if not creds: the credentials file must exist (else sys.exit(1)); then
\* InstalledAppFlow...run_local_server, whose exceptions nothing catches
Authorize ==
    /\ pc = "creds_authorize"
    /\ \E exists \in BOOLEAN, granted \in BOOLEAN :
          IF ~exists
          THEN /\ credLog' = Append(credLog, "credfile_missing")
               /\ creds' = creds
               /\ pc' = "end"
               /\ status' = "exit1"
          ELSE IF ~granted
          THEN /\ credLog' = credLog \o <<"credfile_found", "flow_failed">>
               /\ creds' = creds
               /\ pc' = "end"
               /\ status' = "raised"
          ELSE /\ credLog' = credLog \o <<"credfile_found", "flow_ok">>
               /\ creds' = FreshCreds("flow")
               /\ pc' = "creds_save"
               /\ status' = status
    /\ UNCHANGED <<cli, args, cfgVars, fileVars, metaVars, blogVars,
                   postVars, steps>>

\* get_credentials with sys.exit(1) in the except of the save
SaveTokenFatal ==
    /\ pc = "creds_save"
    /\ \E saved \in BOOLEAN :
          IF saved
          THEN /\ credLog' = credLog \o <<"saved", "return">>
               /\ pc' = "build"
               /\ status' = status
          ELSE /\ credLog' = Append(credLog, "save_failed")
               /\ pc' = "end"
               /\ status' = "exit1"
    /\ UNCHANGED <<cli, args, cfgVars, fileVars, metaVars, creds, blogVars,
                   postVars, steps>>

\* try: open(token_file, 'w') ... write except Exception: warn; return creds
SaveToken ==
    /\ pc = "creds_save"
    /\ \E saved \in BOOLEAN :
          credLog' = credLog \o
              <<IF saved THEN "saved" ELSE "save_failed", "return">>
    /\ pc' = "build"
    /\ UNCHANGED <<cli, args, cfgVars, fileVars, metaVars, creds, blogVars,
                   postVars, steps, status>>

\* service = build('blogger', 'v3', credentials=creds)
BuildService ==
    /\ pc = "build"
    /\ steps' = Append(steps, "build")
    /\ pc' = "blog"
    /\ UNCHANGED <<cli, args, cfgVars, fileVars, metaVars, credVars,
                   blogVars, postVars, status>>

----------------------------------------------------------------------------
(* get_blog_id *)

\* how a remote call ends: a response, or an HttpError
CallOutcomes == {"ok", "http404", "http_error"}

\* the responses of blogs().listByUser: no 'items' key (0 here), or n items
ListSizes == 0..MaxBlogs

\* get_blog_id with the tests for blog_url and blog_id exchanged
BlogSourceUrlFirst(a) ==
    IF Truthy(a.blog_url) THEN "url"
    ELSE IF Truthy(a.blog_id) THEN "id" ELSE "list"

\* the branch taken: if blog_id: ... elif blog_url: ... else: ...
BlogSource(a) ==
    IF Truthy(a.blog_id) THEN "id"
    ELSE IF Truthy(a.blog_url) THEN "url" ELSE "list"

\* get_blog_id with "if len(blogs) == 0" for "if len(blogs) == 1"
AutoSelectNever(n) == n = 0

\* if len(blogs) == 1: the only blog is taken without a prompt
AutoSelect(n) == n = 1

\* from "try: if blog_id:" to a return, a sys.exit(1) or the first prompt
GetBlogId ==
    /\ pc = "blog"
    /\ steps' = Append(steps, "blog")
    /\ IF BlogSource(args) = "id"
       THEN /\ calls' = Append(calls, "blogs.get")
            /\ \E r \in CallOutcomes :
                  IF r = "ok"
                  THEN blog_id' = args.blog_id /\ pc' = "post" /\ status' = status
                  ELSE blog_id' = blog_id /\ pc' = "end" /\ status' = "exit1"
            /\ UNCHANGED <<blogs, listing>>
       ELSE IF BlogSource(args) = "url"
       THEN /\ calls' = Append(calls, "blogs.getByUrl")
            /\ \E r \in CallOutcomes :
                  IF r = "ok"
                  THEN /\ blog_id' = Some(<<"blog-at">> \o args.blog_url[1])
                       /\ pc' = "post"
                       /\ status' = status
                  ELSE blog_id' = blog_id /\ pc' = "end" /\ status' = "exit1"
            /\ UNCHANGED <<blogs, listing>>
       ELSE /\ calls' = Append(calls, "blogs.listByUser")
            /\ \E r \in CallOutcomes, items \in BOOLEAN, n \in ListSizes :
                  IF r # "ok"
                  THEN /\ listing' = "http_error"
                       /\ UNCHANGED <<blogs, blog_id>>
                       /\ pc' = "end"
                       /\ status' = "exit1"
                  ELSE IF ~items \/ n = 0
                  THEN /\ listing' = IF items THEN "empty" ELSE "no_items"
                       /\ UNCHANGED <<blogs, blog_id>>
                       /\ pc' = "end"
                       /\ status' = "exit1"
                  ELSE /\ listing' = "items"
                       /\ blogs' = [i \in 1..n |-> BlogId(i)]
                       /\ IF AutoSelect(n)
                          THEN blog_id' = Some(BlogId(1)) /\ pc' = "post"
                          ELSE blog_id' = blog_id /\ pc' = "select"
                       /\ status' = status
    /\ prompts' = prompts
    /\ UNCHANGED <<cli, args, cfgVars, fileVars, metaVars, credVars,
                   choice, post_body, post>>

\* get_blog_id with "except ValueError:" alone: Ctrl-C at the prompt is not
\* caught
SelectBlogInterruptEscapes ==
    /\ pc = "select"
    /\ prompts' = IF prompts < MaxPrompts THEN prompts + 1 ELSE prompts
    /\ \E inp \in Inputs :
          /\ choice' = inp
          /\ IF inp.kind = "int" /\ 1 <= inp.n /\ inp.n <= Len(blogs)
             THEN blog_id' = Some(blogs[inp.n]) /\ pc' = "post" /\ status' = status
             ELSE IF inp.kind \in {"eof", "interrupt"}
             THEN blog_id' = blog_id /\ pc' = "end" /\ status' = "raised"
             ELSE blog_id' = blog_id /\ pc' = pc /\ status' = status
    /\ UNCHANGED <<cli, args, cfgVars, fileVars, metaVars, credVars, blogs,
                   listing, postVars, steps>>

\* one turn of "while True": choice = int(input(...))
SelectBlog ==
    /\ pc = "select"
    /\ prompts' = IF prompts < MaxPrompts THEN prompts + 1 ELSE prompts
    /\ \E inp \in Inputs :
          /\ choice' = inp
          /\ IF inp.kind = "int" /\ 1 <= inp.n /\ inp.n <= Len(blogs)
             THEN blog_id' = Some(blogs[inp.n]) /\ pc' = "post" /\ status' = status
             ELSE IF inp.kind = "eof"
             THEN blog_id' = blog_id /\ pc' = "end" /\ status' = "raised"
             ELSE blog_id' = blog_id /\ pc' = pc /\ status' = status
    /\ UNCHANGED <<cli, args, cfgVars, fileVars, metaVars, credVars, blogs,
                   listing, postVars, steps>>

----------------------------------------------------------------------------
(* post_to_blog and the end of main *)

\* main without the sys.exit(1) of post_to_blog's except: the run goes on
\* to the confirmation and ends with status 0
PostToBlogIgnoresError ==
    /\ pc = "post"
    /\ steps' = Append(steps, "post")
    /\ calls' = Append(calls, "posts.insert")
    /\ post_body' =
          Some([title   |-> final_title[1],
                content |-> content,
                labels  |-> IF Truthy(final_labels) THEN final_labels ELSE None,
                isDraft |-> args.draft])
    /\ \E r \in CallOutcomes :
          /\ post' = IF r = "ok" THEN post_body' ELSE None
          /\ status' = "exit0"
    /\ pc' = "end"
    /\ UNCHANGED <<cli, args, cfgVars, fileVars, metaVars, credVars,
                   blogVars>>

\* post = post_to_blog(...), the confirmation, and the return of main
PostToBlog ==
    /\ pc = "post"
    /\ steps' = Append(steps, "post")
    /\ calls' = Append(calls, "posts.insert")
    /\ post_body' =
          Some([title   |-> final_title[1],
                content |-> content,
                labels  |-> IF Truthy(final_labels) THEN final_labels ELSE None,
                isDraft |-> args.draft])
    /\ \E r \in CallOutcomes :
          /\ post' = IF r = "ok" THEN post_body' ELSE None
          /\ status' = IF r = "ok" THEN "exit0" ELSE "exit1"
    /\ pc' = "end"
    /\ UNCHANGED <<cli, args, cfgVars, fileVars, metaVars, credVars,
                   blogVars>>

Next ==
    \/ LoadConfig
    \/ MergeConfig
    \/ FileCheck
    \/ ReadFile
    \/ ExtractMetadata
    \/ ResolveTitle
    \/ ResolveLabels
    \/ LoadToken
    \/ RefreshToken
    \/ Authorize
    \/ SaveToken
    \/ BuildService
    \/ GetBlogId
    \/ SelectBlog
    \/ PostToBlog

Spec == Init /\ [][Next]_vars

----------------------------------------------------------------------------
(* extract_metadata_from_content alone, on every content of Contents:    *)
(* the run stands before line 467, the file read                          *)

NoFlags ==
    [title |-> None, blog_url |-> None, blog_id |-> None, labels |-> None,
     draft |-> FALSE, credentials |-> None, token |-> None, config |-> None]

InitExtract ==
    /\ pc = "extract"
    /\ cli = NoFlags
    /\ args = parse_args(cli)
    /\ cfgKind = "nopath"
    /\ config = [isdict |-> TRUE, m |-> EmptyMap]
    /\ fileState = "read"
    /\ content \in Contents
    /\ steps = <<"file_check", "read">>
    /\ Unset({})

NextExtract == ExtractMetadata

SpecExtract == InitExtract /\ [][NextExtract]_vars

----------------------------------------------------------------------------
(* merge_config_with_args alone, on every command line of CliMergeSet and *)
(* every mapping of ConfigMaps: the run stands before line 441            *)

InitMerge ==
    /\ pc = "merge"
    /\ cli \in CliMergeSet
    /\ args = parse_args(cli)
    /\ cfgKind = "dict"
    /\ \E m \in ConfigMaps : config = load_config_file("dict", m)
    /\ Unset({"file"})

NextMerge == MergeConfig

SpecMerge == InitMerge /\ [][NextMerge]_vars

----------------------------------------------------------------------------
(* Properties *)

FileFailures == {"missing", "notfound", "permission", "decode", "oserror"}

\* no credential acquisition has started and no remote call was made
NothingRemote ==
    /\ ~Has(steps, "credentials")
    /\ credLog = <<>>
    /\ creds = None
    /\ calls = <<>>
    /\ post_body = None

\* C1: the create-post call never carries an absent or empty title; the
\* final title is the command-line title if there is one, else the title of
\* the file marker; when neither gives a non-empty title the run exits with
\* status 1 before credential acquisition and before any remote call.
C1_PostHasTitle ==
    /\ IsSome(post_body) =>
          /\ Truthy(final_title)
          /\ post_body[1].title = final_title[1]
          /\ Len(post_body[1].title) > 0
    /\ Has(steps, "title") =>
          /\ Truthy(cli.title) => final_title = cli.title
          /\ ~Truthy(cli.title) =>
                /\ final_title = file_title
                /\ LET m == re_search(title_pattern, content)
                   IN  final_title = IF IsSome(m) THEN Some(strip(m[1]))
                                     ELSE None
          /\ (~Truthy(cli.title) /\ ~Truthy(file_title)) =>
                status = "exit1" /\ pc = "end" /\ NothingRemote

\* C1 witness: no title on the command line and a marker whose title is
\* empty: the run has exited at the title step
C1_Witness ==
    /\ Has(steps, "title")
    /\ ~Truthy(cli.title)
    /\ IsSome(file_title)
    /\ Len(file_title[1]) = 0
    /\ status = "exit1"

\* C2: whenever get_credentials returns, the credentials it returns are
\* valid, and credentials that come from the authorization flow were
\* obtained after the credentials file was found.
C2_ReturnedCredsValid ==
    Has(credLog, "return") =>
        /\ IsSome(creds)
        /\ creds[1].valid
        /\ creds[1].origin = "flow" => Has(credLog, "credfile_found")

\* C3: an input file that is missing at the existence check, or whose read
\* fails, ends the run with status 1, with no credential acquisition and no
\* remote call.
C3_FileFailureStops ==
    fileState \in FileFailures =>
        /\ status = "exit1"
        /\ pc = "end"
        /\ NothingRemote

\* C3 witness: the file exists and is not valid UTF-8
C3_Witness ==
    /\ fileState = "decode"
    /\ steps = <<"file_check", "read">>
    /\ status = "exit1"

\* the value of the config file for a field, as args would hold it
ConfigValue(m, f) ==
    CASE f = "labels" -> IF m.labels[1].islist
                         THEN Some(join(m.labels[1].items, ","))
                         ELSE Some(m.labels[1].items[1])
      [] f = "blog_url" -> m.blog_url
      [] f = "blog_id" -> m.blog_id

\* the config file has a usable (non-empty, true) value for the field
ConfigHas(m, f) ==
    CASE f = "labels" -> LabelsTruthy(m.labels)
      [] f = "draft" -> DraftTruthy(m.draft)
      [] OTHER -> Truthy(m[f])

RECURSIVE PiecesFrom(_, _, _, _)
PiecesFrom(rest, cur, pend, out) ==
    LET done == IF Len(cur) > 0 THEN Append(out, cur) ELSE out
    IN  IF Len(rest) = 0 THEN done
        ELSE IF rest[1] = "," THEN PiecesFrom(Tail(rest), <<>>, <<>>, done)
        ELSE IF IsSpace(rest[1])
        THEN IF Len(cur) = 0
             THEN PiecesFrom(Tail(rest), cur, pend, out)
             ELSE PiecesFrom(Tail(rest), cur, Append(pend, rest[1]), out)
        ELSE PiecesFrom(Tail(rest), cur \o pend \o <<rest[1]>>, <<>>, out)

Pieces(capture) == PiecesFrom(capture, <<>>, <<>>, <<>>)

\* C5: extract_metadata_from_content never returns an empty list of
\* labels: with no labels marker, or a capture that holds no non-empty
\* piece, the labels are None.
C5_LabelsNeverEmptyList ==
    pc = "title" =>
        LET m == re_search(labels_pattern, content)
        IN  /\ ~(IsSome(file_labels) /\ Len(file_labels[1]) = 0)
            /\ (IsNone(m) \/ Len(Pieces(m[1])) = 0) => file_labels = None

\* C6: for a content with a labels marker, the labels returned are the
\* comma-separated pieces of the first marker's capture, trimmed, the empty
\* ones dropped, in their order; no label is empty, begins or ends with
\* whitespace or holds a comma.  (No labels are returned for a capture of
\* whitespace alone, whose list of pieces is empty.)
C6_LabelsArePieces ==
    pc = "title" =>
        LET m == re_search(labels_pattern, content)
        IN  IsSome(m) =>
               /\ \/ file_labels = Some(Pieces(m[1]))
                  \/ file_labels = None /\ Len(Pieces(m[1])) = 0
               /\ IsSome(file_labels) =>
                     \A i \in 1..Len(file_labels[1]) :
                        LET l == file_labels[1][i]
                        IN  /\ Len(l) > 0
                            /\ ~IsSpace(l[1])
                            /\ ~IsSpace(l[Len(l)])
                            /\ ~Has(l, ",")

\* C6 witness: a capture of three pieces, one of them empty or blank, and
\* whitespace to trim: the labels are a, b in this order
C6_Witness ==
    /\ pc = "title"
    /\ file_labels = Some(<<<<"a">>, <<"b">>>>)
    /\ LET m == re_search(labels_pattern, content)
       IN  /\ IsSome(m)
           /\ Len(split(m[1], ",")) = 3
           /\ Has(m[1], " ")

\* C7: a blog ID, when there is one, is validated with blogs.get and
\* returned unchanged (or the run exits with status 1), and then neither
\* blogs.getByUrl nor blogs.listByUser is called, blog URL or not; only with
\* no blog ID is a blog URL resolved with blogs.getByUrl; only with neither
\* is blogs.listByUser called.
C7_ResolutionOrder ==
    Has(steps, "blog") =>
        /\ Len(calls) >= 1
        /\ calls[1] = IF Truthy(args.blog_id) THEN "blogs.get"
                      ELSE IF Truthy(args.blog_url) THEN "blogs.getByUrl"
                      ELSE "blogs.listByUser"
        /\ \A i \in 2..Len(calls) : calls[i] = "posts.insert"
        /\ Truthy(args.blog_id) =>
              /\ IsSome(blog_id) => blog_id = args.blog_id
              /\ IsNone(blog_id) => status = "exit1" /\ pc = "end"
              /\ prompts = 0

\* C7 witness: a blog ID and a blog URL, and the blog ID was returned
C7_Witness ==
    /\ Truthy(args.blog_id)
    /\ Truthy(args.blog_url)
    /\ IsSome(blog_id)
    /\ calls = <<"blogs.get", "posts.insert">>

\* C8: with neither blog ID nor blog URL, a listing of exactly one blog
\* returns its ID with no prompt, and a listing of no blogs (or without
\* items) ends the run with status 1, with no prompt and no create-post
\* call.
C8_ListingOfOneOrNone ==
    (Has(steps, "blog") /\ ~Truthy(args.blog_id) /\ ~Truthy(args.blog_url)) =>
        /\ (listing = "items" /\ Len(blogs) = 1) =>
              /\ blog_id = Some(blogs[1])
              /\ prompts = 0
              /\ pc # "select"
        /\ listing \in {"empty", "no_items"} =>
              /\ status = "exit1"
              /\ pc = "end"
              /\ prompts = 0
              /\ blog_id = None
              /\ post_body = None
              /\ ~Has(calls, "posts.insert")

\* C8 witness: one blog listed, and the post made to it
C8_Witness ==
    /\ listing = "items"
    /\ Len(blogs) = 1
    /\ blog_id = Some(blogs[1])
    /\ calls = <<"blogs.listByUser", "posts.insert">>
    /\ status = "exit0"

\* C9: a config source that is missing, unreadable or malformed (or parses
\* to something that is no mapping) never aborts the run: the configuration
\* is empty, every field keeps its command-line value or default, and the
\* run goes on to the file check.
C9_BadConfigDegrades ==
    cfgKind \in {"missing", "noyaml", "unreadable", "malformed", "nondict"} =>
        /\ config = [isdict |-> TRUE, m |-> EmptyMap]
        /\ pc # "merge" =>
              /\ args = parse_args(cli)
              /\ pc = "file_check" \/ Has(steps, "file_check")

\* the run ended inside get_credentials
EndedInGetCredentials ==
    /\ status # "running"
    /\ Len(steps) > 0
    /\ Last(steps) = "credentials"

\* load failure and refresh failure leave no credentials and lead to the
\* check of the credentials file; a failed save returns the credentials as
\* they were
C10_NonFatal ==
    /\ \A i \in 1..Len(credLog) :
          credLog[i] \in {"load_failed", "refresh_failed"} =>
              IF i = Len(credLog)
              THEN creds = None /\ pc = "creds_authorize" /\ status = "running"
              ELSE credLog[i + 1] \in {"credfile_missing", "credfile_found"}
    /\ Has(credLog, "save_failed") =>
          /\ Last(credLog) = "return"
          /\ IsSome(creds)
          /\ creds[1].origin = IF Has(credLog, "flow_ok") THEN "flow"
                               ELSE IF Has(credLog, "refresh_ok")
                               THEN "refreshed" ELSE "loaded"
          /\ ~EndedInGetCredentials

\* C10 as claimed: load, refresh and save failures are not fatal, and the
\* only way a run ends inside get_credentials is the missing credentials
\* file when there are no credentials.
C10_OnlyMissingFileIsFatal ==
    /\ C10_NonFatal
    /\ EndedInGetCredentials =>
          /\ Last(credLog) = "credfile_missing"
          /\ creds = None
          /\ status = "exit1"

\* C10 amended: load, refresh and save failures are not fatal; a run ends
\* inside get_credentials only when there are no credentials and either the
\* credentials file is missing (sys.exit(1)) or the authorization flow
\* itself fails (its exception is not caught).
C10_FatalExits ==
    /\ C10_NonFatal
    /\ EndedInGetCredentials =>
          /\ creds = None
          /\ \/ Last(credLog) = "credfile_missing" /\ status = "exit1"
             \/ Last(credLog) = "flow_failed" /\ status = "raised"

\* C10 witness: the refresh failed, the user authorized again, the save
\* failed, and the post was made
C10_Witness ==
    /\ Has(credLog, "refresh_failed")
    /\ Has(credLog, "flow_ok")
    /\ Has(credLog, "save_failed")
    /\ status = "exit0"

\* the steps of a run that posts, in the order of main; "labels" (the
\* final labels) and "build" (the API service) are the two steps of main
\* between the ones the claims name
StepOrder ==
    <<"file_check", "read", "extract", "title", "labels", "credentials",
      "build", "blog", "post">>

IsPrefix(a, b) == Len(a) <= Len(b) /\ \A i \in 1..Len(a) : a[i] = b[i]

Count(seq, x) == Cardinality({i \in 1..Len(seq) : seq[i] = x})

\* something a step of main ends the run on has happened
StepFailed ==
    \/ fileState \in FileFailures
    \/ Has(steps, "title") /\ ~Truthy(final_title)
    \/ Has(credLog, "credfile_missing")
    \/ Has(credLog, "flow_failed")
    \/ listing \in {"http_error", "empty", "no_items"}
    \/ Has(steps, "blog") /\ IsNone(blog_id) /\ pc # "select"
    \/ choice.kind = "eof"
    \/ Has(calls, "posts.insert") /\ IsNone(post)

\* C11: the steps of a run come in the fixed order file check, file read,
\* metadata extraction, title resolution, credential acquisition, blog
\* resolution, create-post; create-post is called at most once, and only
\* after get_credentials has returned and get_blog_id has returned an ID; a
\* failure of a step ends the process with status 1 (sys.exit(1), or an
\* uncaught exception) with no later step and no retry; status 0 comes only
\* after create-post succeeded.
C11_StepsInOrder ==
    /\ IsPrefix(steps, StepOrder)
    /\ Count(calls, "posts.insert") <= 1
    /\ Has(calls, "posts.insert") =>
          /\ Last(calls) = "posts.insert"
          /\ Last(steps) = "post"
          /\ Last(credLog) = "return"
          /\ IsSome(creds)
          /\ IsSome(blog_id)
    /\ StepFailed => status \in {"exit1", "raised"}
    /\ status # "running" => pc = "end" /\ ~ENABLED Next
    /\ status = "exit0" =>
          /\ IsSome(post)
          /\ Count(calls, "posts.insert") = 1
          /\ steps = StepOrder

\* C11 witness: a run through all the steps that ends with status 0
C11_Witness ==
    /\ status = "exit0"
    /\ steps = StepOrder
    /\ Len(calls) = 2
    /\ calls[2] = "posts.insert"
    /\ IsSome(post)

\* the last input was an integer k with 1 <= k <= n
ValidChoice ==
    /\ choice.kind = "int"
    /\ 1 <= choice.n
    /\ choice.n <= Len(blogs)

\* the loop runs only on a listing of two or more blogs, returns on a valid
\* selection the ID of the blog selected, and on text that is no integer, an
\* integer out of range or a keyboard interrupt prompts again
C12_LoopOnInput ==
    /\ pc = "select" =>
          /\ Len(blogs) >= 2
          /\ blog_id = None
          /\ status = "running"
          /\ ~ValidChoice
    /\ choice.kind # "none" =>
          /\ Len(blogs) >= 2
          /\ ValidChoice =>
                /\ blog_id = Some(blogs[choice.n])
                /\ pc # "select"
                /\ Has(steps, "post") \/ pc = "post"
          /\ (~ValidChoice /\ choice.kind # "eof") =>
                /\ pc = "select"
                /\ status = "running"
                /\ prompts >= 1

\* C12 as claimed: with two or more blogs listed, the selection loop
\* returns only on an integer k with 1 <= k <= n, and then the ID of the k-th
\* blog; whatever else input() gives prompts again without ending the
\* process, so the loop ends only on a valid selection.
C12_OnlyValidSelectionEnds ==
    /\ C12_LoopOnInput
    /\ (choice.kind # "none" /\ ~ValidChoice) =>
          pc = "select" /\ status = "running"

\* C12 amended: as claimed for text that is no integer, an integer out of
\* range and a keyboard interrupt; but the end of standard input at the
\* prompt (EOFError, which the loop does not catch) ends the process with no
\* blog selected and no post, so the loop ends on a valid selection or on
\* the end of input.
C12_ValidSelectionOrEndOfInput ==
    /\ C12_LoopOnInput
    /\ choice.kind = "eof" =>
          /\ pc = "end"
          /\ status = "raised"
          /\ blog_id = None
          /\ ~Has(calls, "posts.insert")
    /\ (choice.kind # "none" /\ pc # "select") =>
          ValidChoice \/ choice.kind = "eof"

\* C12 witness: an invalid input, a second prompt, the second of the blogs
\* selected, and the post made to it
C12_Witness ==
    /\ prompts >= 2
    /\ choice = [kind |-> "int", n |-> 2]
    /\ blog_id = Some(blogs[2])
    /\ status = "exit0"

\* the labels text the config file gives: a list joined with commas, a
\* string as it is; empty when the config gives none
ConfigLabelsText ==
    IF config.isdict /\ LabelsTruthy(config.m.labels)
    THEN IF config.m.labels[1].islist
         THEN join(config.m.labels[1].items, ",")
         ELSE config.m.labels[1].items[1]
    ELSE <<>>

\* L is the text t split at its commas with each piece trimmed: one piece
\* more than commas, and the non-empty ones are the labels read from t in
\* one pass
SplitOf(t, L) ==
    /\ Len(L) = Count(t, ",") + 1
    /\ SelectSeq(L, LAMBDA l : Len(l) > 0) = Pieces(t)

====
